---- MODULE Spec2Model ----
(***************************************************************************)
(* A model of the analysis core of automated_reporting:                    *)
(*   file_reader.py  (read_file, the readers, _clean_df, _txt_to_df)       *)
(*   analyzer.py     (_analyze_df numeric part, _analyze_text,             *)
(*                    _generate_insights)                                  *)
(*   main.py         (the read -> analyze -> build_report pipeline)        *)
(* Floating values are kept as scaled integers; the scale is in the name   *)
(* (x4 = quarters, x8 = eighths, x100 = hundredths, x10000).               *)
(***************************************************************************)
EXTENDS Integers, Sequences, FiniteSets, TLC

VARIABLES
    pc,         \* position of the operation under way
    result,     \* analyzer.py: the analysis record handed to _generate_insights
    insights,   \* analyzer.py: _generate_insights' local list
    ret,        \* analyzer.py: the value _generate_insights returned
    raw_df,     \* file_reader.py: the table handed to _clean_df
    df_once,    \* _clean_df(raw_df)
    df_twice,   \* _clean_df(_clean_df(raw_df))
    data,       \* file_reader.py: the value json.load returned in _read_json
    json_ret,   \* what _read_json returned
    series,     \* analyzer.py: one numeric column of the table, df[col]
    numeric,    \* analyzer.py: numeric[col] as _analyze_df filled it
    num_cols,   \* analyzer.py: the numeric columns of the table, in column order
    correlations, \* analyzer.py: correlations as _analyze_df filled it
    text,       \* analyzer.py: the text handed to _analyze_text
    text_stats, \* what _analyze_text returned
    file,       \* main.py: the file behind the path given on the command line
    file_info,  \* main.py: what read_file returned
    analysis,   \* main.py: what analyze returned
    built       \* main.py: whether build_report was called

giVars == <<result, insights, ret>>
cleanVars == <<raw_df, df_once, df_twice>>
jsonVars == <<data, json_ret>>
numVars == <<series, numeric>>
corrVars == <<num_cols, correlations>>
textVars == <<text, text_stats>>
mainVars == <<file, file_info, analysis, built>>
vars == <<pc, giVars, cleanVars, jsonVars, numVars, corrVars, textVars, mainVars>>

\* the variables an operation of one part leaves alone
NotGI == <<cleanVars, jsonVars, numVars, textVars, mainVars, corrVars>>
NotClean == <<giVars, jsonVars, numVars, textVars, mainVars, corrVars>>
NotJson == <<giVars, cleanVars, numVars, textVars, mainVars, corrVars>>
NotNum == <<giVars, cleanVars, jsonVars, textVars, mainVars, corrVars>>
NotText == <<giVars, cleanVars, jsonVars, numVars, mainVars, corrVars>>
NotCorr == <<giVars, cleanVars, jsonVars, numVars, textVars, mainVars>>
NotMain == <<giVars, cleanVars, jsonVars, numVars, textVars, corrVars>>

None == "None"

Min(a, b) == IF a < b THEN a ELSE b
Max(a, b) == IF a > b THEN a ELSE b
Abs(a) == IF a < 0 THEN -a ELSE a

\* s[:n]
Take(s, n) == SubSeq(s, 1, Min(Len(s), n))

\* the sequences over S of length at most n
SeqsUpTo(S, n) == UNION {[1..k -> S] : k \in 0..n}

\* the members of a set of integers, ascending
RECURSIVE Ascending(_)
Ascending(S) ==
    IF S = {} THEN <<>>
    ELSE LET m == CHOOSE x \in S : \A y \in S : x <= y
         IN <<m>> \o Ascending(S \ {m})

(***************************************************************************)
(* Tables (pandas DataFrame).  A value (a cell or a column label) is a     *)
(* tagged record: k = "str" with its characters, "num" with its digits,    *)
(* or "nan" (None / NaN).  A table has its column labels, the dtype of     *)
(* each column ("object" or "number"), its rows and its row index.         *)
(***************************************************************************)
Str(chars) == [k |-> "str", v |-> chars]
Num(digits) == [k |-> "num", v |-> digits]
NaN == [k |-> "nan", v |-> <<>>]

Whitespace == {" ", "\n"}
Digits == {"1", "2"}

\* str.strip()
RECURSIVE LStrip(_)
LStrip(cs) == IF cs # <<>> /\ Head(cs) \in Whitespace THEN LStrip(Tail(cs)) ELSE cs
RECURSIVE RStrip(_)
RStrip(cs) ==
    IF cs # <<>> /\ cs[Len(cs)] \in Whitespace THEN RStrip(SubSeq(cs, 1, Len(cs) - 1)) ELSE cs
Strip(cs) == RStrip(LStrip(cs))

\* str(c) of a column label: a number prints as its digits
ToStr(c) == Str(c.v)

IsNull(c) == c.k = "nan"

\* pd.to_numeric on one value: a number stays, the empty string becomes NaN,
\* a string of digits parses, any other string raises ValueError
Parses(c) ==
    \/ c.k \in {"num", "nan"}
    \/ c.k = "str" /\ \A i \in 1..Len(c.v) : c.v[i] \in Digits
ParseNumeric(c) ==
    IF c.k = "str" THEN (IF c.v = <<>> THEN NaN ELSE Num(c.v)) ELSE c

\* column j of a table, as the sequence of its cells
Column(df, j) == [i \in 1..Len(df.rows) |-> df.rows[i][j]]

\* the rows / columns of df at the given positions (ascending)
KeepRows(df, keep) ==
    [df EXCEPT !.rows = [k \in 1..Len(keep) |-> df.rows[keep[k]]],
               !.index = [k \in 1..Len(keep) |-> df.index[keep[k]]]]
KeepCols(df, keep) ==
    [df EXCEPT !.columns = [k \in 1..Len(keep) |-> df.columns[keep[k]]],
               !.dtypes = [k \in 1..Len(keep) |-> df.dtypes[keep[k]]],
               !.rows = [i \in 1..Len(df.rows) |->
                            [k \in 1..Len(keep) |-> df.rows[i][keep[k]]]]]

\* line 150: df.columns = [str(c).strip() for c in df.columns]
RenameColumns(df) ==
    [df EXCEPT !.columns = [j \in 1..Len(df.columns) |-> Str(Strip(ToStr(df.columns[j]).v))]]

\* line 151: df.dropna(how="all"): a row is dropped when every cell of it is null
DropEmptyRows(df) ==
    KeepRows(df, Ascending({i \in 1..Len(df.rows) :
                              \E j \in 1..Len(df.columns) : ~IsNull(df.rows[i][j])}))

\* line 151: .dropna(axis=1, how="all"): a column is dropped when every cell is null
DropEmptyCols(df) ==
    KeepCols(df, Ascending({j \in 1..Len(df.columns) :
                              \E i \in 1..Len(df.rows) : ~IsNull(df.rows[i][j])}))

\* lines 153-157: df[col] = pd.to_numeric(df[col]) for each label, in order.
\* With a repeated label df[col] is a DataFrame and to_numeric raises TypeError;
\* a value that does not parse raises ValueError; both leave the column as it is.
Converts(df, j) ==
    /\ \A j2 \in 1..Len(df.columns) : j2 # j => df.columns[j2] # df.columns[j]
    /\ \A i \in 1..Len(df.rows) : Parses(df.rows[i][j])
ToNumericColumns(df) ==
    [df EXCEPT !.rows = [i \in 1..Len(df.rows) |->
                            [j \in 1..Len(df.columns) |->
                                IF Converts(df, j) THEN ParseNumeric(df.rows[i][j])
                                ELSE df.rows[i][j]]],
               !.dtypes = [j \in 1..Len(df.columns) |->
                              IF Converts(df, j) THEN "number" ELSE df.dtypes[j]]]

\* line 158: df.reset_index(drop=True)
ResetIndex(df) == [df EXCEPT !.index = [i \in 1..Len(df.rows) |-> i - 1]]

\* lines 148-158
CleanDf(df) == ResetIndex(ToNumericColumns(DropEmptyCols(DropEmptyRows(RenameColumns(df)))))

\* the dtype pandas gives a freshly built column: number when every cell is a
\* number or NaN, object when a string is among them
InferDtype(cells) ==
    IF cells # <<>> /\ \A i \in 1..Len(cells) : cells[i].k \in {"num", "nan"}
    THEN "number" ELSE "object"

\* a table built from labels and rows, with a fresh RangeIndex
MakeDf(columns, rows) ==
    [columns |-> columns,
     dtypes |-> [j \in 1..Len(columns) |-> InferDtype([i \in 1..Len(rows) |-> rows[i][j]])],
     rows |-> rows,
     index |-> [i \in 1..Len(rows) |-> i - 1]]

\* pd.DataFrame()
EmptyDf == MakeDf(<<>>, <<>>)

(***************************************************************************)
(* analyzer.py: _generate_insights                                         *)
(***************************************************************************)

\* bounds of the analysis records the rules are run on
MaxNumCols == 3
MaxCatCols == 2

\* thresholds of the rules
LargeRows == 100000
SmallRows == 30
HighMissing == 20
ModerateMissing == 5
OutlierPctLimit == 10
SkewLimit == 2
StrongR_x100 == 80
TopPairsUsed == 3
DominantPct == 70
LowDiversity_x100 == 30
InsightCap == 12

Insight(title, subject, value) == [title |-> title, subject |-> subject, value |-> value]

\* numeric[col]: the fields the rules read
NumStats == { [outlier_pct |-> 20, skewness |-> 3],
              [outlier_pct |-> 10, skewness |-> 2],
              [outlier_pct |-> 11, skewness |-> -3] }
CatStats == { [top_pct |-> 80], [top_pct |-> 70] }
\* correlations.top_pairs, r in hundredths
PairLists == { <<>>, <<90>>, <<90, -80>>, <<-95, 90, 50>>, <<95, 90, -85, 80>> }
TextStatsSet == { [lexical_diversity |-> d, word_count |-> w, sentence_count |-> 1] :
                  d \in {10, 30, 67}, w \in {0, 9} }
\* an absent section is the empty dict
NoText == [lexical_diversity |-> 0, word_count |-> -1, sentence_count |-> 0]

\* a column is (name, stats); names are c1, c2, ... in dict insertion order
ColName(i) == <<"c", i>>

TableRecords ==
    { [rows |-> r, missing_pct |-> m, duplicate_rows |-> d,
       numeric |-> n, top_pairs |-> p, categorical |-> c, text_stats |-> NoText] :
      r \in {10, 50, 200000}, m \in {0, 5, 20, 30}, d \in {0, 2},
      n \in SeqsUpTo(NumStats, MaxNumCols), p \in PairLists,
      c \in SeqsUpTo(CatStats, MaxCatCols) }

TextRecords ==
    { [rows |-> 0, missing_pct |-> 0, duplicate_rows |-> 0,
       numeric |-> <<>>, top_pairs |-> <<>>, categorical |-> <<>>, text_stats |-> t] :
      t \in TextStatsSet \cup {NoText} }

AnalysisRecords == TableRecords \cup TextRecords

\* lines 234-239
RowInsights(r) ==
    IF r.rows # 0
    THEN IF r.rows > LargeRows THEN <<Insight("Large Dataset", <<"rows", 0>>, r.rows)>>
         ELSE IF r.rows < SmallRows THEN <<Insight("Small Sample", <<"rows", 0>>, r.rows)>>
         ELSE <<>>
    ELSE <<>>

\* lines 242-246
MissingInsights(r) ==
    IF r.missing_pct > HighMissing
    THEN <<Insight("High Missing Data", <<"cells", 0>>, r.missing_pct)>>
    ELSE IF r.missing_pct > ModerateMissing
         THEN <<Insight("Moderate Missing Data", <<"cells", 0>>, r.missing_pct)>>
         ELSE <<>>

\* lines 249-251
DuplicateInsights(r) ==
    IF r.duplicate_rows > 0
    THEN <<Insight("Duplicate Rows", <<"rows", 0>>, r.duplicate_rows)>>
    ELSE <<>>

\* lines 254-256: for col, stats in num.items(), in insertion order
OutlierInsights(r) ==
    LET ix == Ascending({i \in 1..Len(r.numeric) :
                           r.numeric[i].outlier_pct > OutlierPctLimit})
    IN [k \in 1..Len(ix) |->
           Insight("Outliers Detected", ColName(ix[k]), r.numeric[ix[k]].outlier_pct)]

\* lines 259-263
SkewInsights(r) ==
    LET ix == Ascending({i \in 1..Len(r.numeric) :
                           Abs(r.numeric[i].skewness) > SkewLimit})
    IN [k \in 1..Len(ix) |->
           Insight("Skewed Distribution", ColName(ix[k]), r.numeric[ix[k]].skewness)]

\* lines 266-269: for pair in top_pairs[:3]
CorrelationInsights(r) ==
    LET top == Take(r.top_pairs, TopPairsUsed)
        ix == Ascending({i \in 1..Len(top) : Abs(top[i]) >= StrongR_x100})
    IN [k \in 1..Len(ix) |-> Insight("Strong Correlation", <<"pair", ix[k]>>, top[ix[k]])]

\* lines 272-275
CategoryInsights(r) ==
    LET ix == Ascending({i \in 1..Len(r.categorical) :
                           r.categorical[i].top_pct > DominantPct})
    IN [k \in 1..Len(ix) |->
           Insight("Dominant Category", ColName(ix[k]), r.categorical[ix[k]].top_pct)]

\* lines 278-283
TextInsights(r) ==
    IF r.text_stats # NoText
    THEN (IF r.text_stats.lexical_diversity < LowDiversity_x100
          THEN <<Insight("Low Lexical Diversity", <<"text", 0>>, r.text_stats.lexical_diversity)>>
          ELSE <<>>)
         \o <<Insight("Document Size", <<"text", 0>>, r.text_stats.word_count)>>
    ELSE <<>>

\* line 285: insights[:12]
CapLast(s) == SubSeq(s, Max(1, Len(s) - InsightCap + 1), Len(s))
Cap(s) == Take(s, InsightCap)

\* one step of _generate_insights: the rule at `from` appends, control moves to `to`
Rule(from, to, produced) ==
    /\ pc = from
    /\ insights' = insights \o produced
    /\ pc' = to
    /\ UNCHANGED <<result, ret, NotGI>>

GI_Rows       == Rule("gi_rows", "gi_missing", RowInsights(result))
GI_Missing    == Rule("gi_missing", "gi_dups", MissingInsights(result))
GI_Duplicates == Rule("gi_dups", "gi_outliers", DuplicateInsights(result))
GI_Outliers   == Rule("gi_outliers", "gi_skew", OutlierInsights(result))
GI_Skew       == Rule("gi_skew", "gi_corr", SkewInsights(result))
GI_Corr       == Rule("gi_corr", "gi_cat", CorrelationInsights(result))
GI_Category   == Rule("gi_cat", "gi_text", CategoryInsights(result))
GI_Text       == Rule("gi_text", "gi_return", TextInsights(result))

GI_Return ==
    /\ pc = "gi_return"
    /\ ret' = Cap(insights)
    /\ pc' = "gi_done"
    /\ UNCHANGED <<result, insights, NotGI>>

\* the variables of the other operations, at rest
NoDf == [columns |-> <<>>, dtypes |-> <<>>, rows |-> <<>>, index |-> <<>>]
CleanIdle == raw_df = NoDf /\ df_once = NoDf /\ df_twice = NoDf
GIIdle == result = NoText /\ insights = <<>> /\ ret = <<>>
JsonIdle == data = None /\ json_ret = None
NumIdle == series = <<>> /\ numeric = <<>>
NoCorrelations == [present |-> FALSE, top_pairs |-> <<>>]
CorrIdle == num_cols = <<>> /\ correlations = NoCorrelations
TextIdle == text = <<>> /\ text_stats = <<>>
MainIdle == file = <<>> /\ file_info = <<>> /\ analysis = <<>> /\ built = FALSE

Init ==
    /\ pc = "gi_rows"
    /\ result \in AnalysisRecords
    /\ insights = <<>>
    /\ ret = <<>>
    /\ CleanIdle /\ JsonIdle /\ NumIdle /\ TextIdle /\ MainIdle /\ CorrIdle

Next ==
    \/ GI_Rows
    \/ GI_Missing
    \/ GI_Duplicates
    \/ GI_Outliers
    \/ GI_Skew
    \/ GI_Corr
    \/ GI_Category
    \/ GI_Text
    \/ GI_Return

Spec == Init /\ [][Next]_vars

\* the rules in the order of the specification, by the title they append
RuleRank(title) ==
    CASE title \in {"Large Dataset", "Small Sample"} -> 1
      [] title \in {"High Missing Data", "Moderate Missing Data"} -> 2
      [] title = "Duplicate Rows" -> 3
      [] title = "Outliers Detected" -> 4
      [] title = "Skewed Distribution" -> 5
      [] title = "Strong Correlation" -> 6
      [] title = "Dominant Category" -> 7
      [] title \in {"Low Lexical Diversity", "Document Size"} -> 8

\* how many insights the rules of the specification call for on record r
Triggered(r) ==
      (IF r.rows > LargeRows \/ (r.rows # 0 /\ r.rows < SmallRows) THEN 1 ELSE 0)
    + (IF r.missing_pct > ModerateMissing THEN 1 ELSE 0)
    + (IF r.duplicate_rows > 0 THEN 1 ELSE 0)
    + Cardinality({i \in DOMAIN r.numeric : r.numeric[i].outlier_pct > OutlierPctLimit})
    + Cardinality({i \in DOMAIN r.numeric : r.numeric[i].skewness > SkewLimit
                                             \/ r.numeric[i].skewness < -SkewLimit})
    + Cardinality({i \in DOMAIN r.top_pairs : i <= TopPairsUsed
                                               /\ (r.top_pairs[i] >= StrongR_x100
                                                   \/ r.top_pairs[i] <= -StrongR_x100)})
    + Cardinality({i \in DOMAIN r.categorical : r.categorical[i].top_pct > DominantPct})
    + (IF r.text_stats # NoText
       THEN 1 + (IF r.text_stats.lexical_diversity < LowDiversity_x100 THEN 1 ELSE 0)
       ELSE 0)

\* C1: _generate_insights returns at most 12 insights, exactly the first 12 (or
\* all, if fewer) of those the rules appended; the appended insights are in the
\* fixed rule order (row count, missing data, duplicates, outliers per column,
\* skewness per column, correlations, dominant categories, text), per-column
\* insights in column order, and every rule that fires has its insight appended.
C1_CappedInRuleOrder ==
    pc = "gi_done" =>
        /\ Len(ret) <= 12
        /\ Len(ret) = Min(12, Len(insights))
        /\ \A i \in 1..Len(ret) : ret[i] = insights[i]
        /\ Len(insights) = Triggered(result)
        /\ \A i, j \in 1..Len(insights) :
              i < j =>
                /\ RuleRank(insights[i].title) <= RuleRank(insights[j].title)
                /\ (insights[i].title = insights[j].title
                      => insights[i].subject[2] < insights[j].subject[2])

\* a record on which more than 12 insights were appended and the cap cut some
C1_Witness ==
    pc = "gi_done" /\ Len(insights) > 12 /\ Len(ret) = 12

(***************************************************************************)
(* file_reader.py: _clean_df, applied to a raw table and to its own result *)
(***************************************************************************)
MaxRawCols == 2
MaxRawRows == 2

\* the labels and cells of the raw tables: labels as a reader delivers them
\* (text, possibly padded with blanks, or a number), cells null, numeric,
\* numeric-parsable text, empty text and other text
RawLabels == { Str(<<"a">>), Str(<<" ", "a">>), Str(<<"1">>), Num(<<"1">>) }
RawCells == { NaN, Num(<<"1">>), Str(<<"1">>), Str(<<>>), Str(<<"x">>) }

\* raw tables: the labels of a raw table are pairwise distinct
RawTables ==
    UNION { { MakeDf(cols, rows) :
                rows \in SeqsUpTo([1..Len(cols) -> RawCells], MaxRawRows) } :
            cols \in { c \in SeqsUpTo(RawLabels, MaxRawCols) :
                          c # <<>> /\ \A i, j \in 1..Len(c) : i # j => c[i] # c[j] } }

CleanInit ==
    /\ pc = "clean_once"
    /\ raw_df \in RawTables
    /\ df_once = NoDf
    /\ df_twice = NoDf
    /\ GIIdle /\ JsonIdle /\ NumIdle /\ TextIdle /\ MainIdle /\ CorrIdle

CleanOnce ==
    /\ pc = "clean_once"
    /\ df_once' = CleanDf(raw_df)
    /\ pc' = "clean_twice"
    /\ UNCHANGED <<raw_df, df_twice, NotClean>>

CleanTwice ==
    /\ pc = "clean_twice"
    /\ df_twice' = CleanDf(df_once)
    /\ pc' = "clean_done"
    /\ UNCHANGED <<raw_df, df_once, NotClean>>

CleanNext ==
    \/ CleanOnce
    \/ CleanTwice

SpecClean == CleanInit /\ [][CleanNext]_vars

\* C5: normalization is idempotent: normalizing a normalized table changes
\* neither its column names, nor its column types, nor its rows, nor its index.
C5_Idempotent ==
    pc = "clean_done" => df_twice = df_once

\* C6: no two columns of a normalized table share a name.
C6_DistinctNames ==
    pc \in {"clean_twice", "clean_done"} =>
        \A i, j \in 1..Len(df_once.columns) :
            i # j => df_once.columns[i] # df_once.columns[j]

(***************************************************************************)
(* file_reader.py: _read_json.  A JSON value is a scalar (number, string   *)
(* or null: a cell), a one-key object {"v": cell} or a list of items; an   *)
(* item of a list is an object {"v": cell} or a bare scalar.  A map root   *)
(* holds its values in document order under the keys k, kk, kkk, ...      *)
(***************************************************************************)
MaxEntries == 3

Obj == [k |-> "obj", v |-> <<>>]

JScalar(c) == [t |-> "scalar", c |-> c, items |-> <<>>]
JDict(c) == [t |-> "dict", c |-> c, items |-> <<>>]
JList(items) == [t |-> "list", c |-> NaN, items |-> items]
DictItem(c) == [isdict |-> TRUE, c |-> c]
ScalarItem(c) == [isdict |-> FALSE, c |-> c]

JsonValues ==
    { JScalar(Num(<<"1">>)), JScalar(NaN), JScalar(Str(<<"x">>)), JDict(Num(<<"2">>)),
      JList(<<>>), JList(<<DictItem(Num(<<"1">>))>>),
      JList(<<DictItem(Str(<<"x">>)), DictItem(Num(<<"2">>))>>),
      JList(<<ScalarItem(Num(<<"1">>))>>) }

RootList(items) == [t |-> "list", entries |-> <<>>, items |-> items]
RootMap(entries) == [t |-> "map", entries |-> entries, items |-> <<>>]
RootScalar == [t |-> "scalar", entries |-> <<>>, items |-> <<>>]

JsonData ==
    { RootMap(e) : e \in SeqsUpTo(JsonValues, MaxEntries) }
    \cup { RootList(v.items) : v \in { w \in JsonValues : w.t = "list" } }
    \cup { RootScalar }

\* the key of the i-th entry of a map
KeyOf(i) == [j \in 1..i |-> "k"]

\* pd.json_normalize(list): a table of one row per object; raises on a list
\* holding something that is not an object
NormalizeRaises(items) == \E i \in 1..Len(items) : ~items[i].isdict
NormalizeList(items) ==
    IF items = <<>> THEN EmptyDf
    ELSE MakeDf(<<Str(<<"v">>)>>, [i \in 1..Len(items) |-> <<items[i].c>>])

\* pd.json_normalize([data]) of a map: one row, a column per key; a nested
\* object is flattened to the dotted key, a list stays one cell
WrapMap(entries) ==
    MakeDf([i \in 1..Len(entries) |->
                IF entries[i].t = "dict" THEN Str(KeyOf(i) \o <<".", "v">>) ELSE Str(KeyOf(i))],
           << [i \in 1..Len(entries) |->
                IF entries[i].t = "list" THEN Obj ELSE entries[i].c] >>)

Source(kind, idx) == [kind |-> kind, idx |-> idx]

\* lines 86-96: which value is handed to json_normalize
RowSource(d) ==
    IF d.t = "list" THEN Source("root", 0)
    ELSE IF d.t = "map"
         THEN \* first_val = next(iter(data.values()), None)
              IF d.entries # <<>> /\ d.entries[1].t = "list"
              THEN Source("value", 1)
              ELSE Source("wrapped", 0)
         ELSE Source("none", 0)

\* the table json_normalize makes of a row source, before _clean_df
SourceItems(d, src) ==
    IF src.kind = "root" THEN d.items ELSE d.entries[src.idx].items
SourceRaises(d, src) ==
    src.kind \in {"root", "value"} /\ NormalizeRaises(SourceItems(d, src))
SourceDf(d, src) ==
    CASE src.kind \in {"root", "value"} -> NormalizeList(SourceItems(d, src))
      [] src.kind = "wrapped" -> WrapMap(d.entries)
      [] OTHER -> EmptyDf

\* lines 81-101, after json.load succeeded
ReadJson(d) ==
    LET src == RowSource(d)
    IN [type |-> "json",
        src |-> src,
        df |-> IF SourceRaises(d, src) THEN EmptyDf ELSE CleanDf(SourceDf(d, src))]

JsonInit ==
    /\ pc = "json_read"
    /\ data \in JsonData
    /\ json_ret = None
    /\ GIIdle /\ CleanIdle /\ NumIdle /\ TextIdle /\ MainIdle /\ CorrIdle

JsonRead ==
    /\ pc = "json_read"
    /\ json_ret' = ReadJson(data)
    /\ pc' = "json_done"
    /\ UNCHANGED <<data, NotJson>>

JsonNext ==
    \/ JsonRead

SpecJson == JsonInit /\ [][JsonNext]_vars

\* the first value of a map that is a list, 0 when there is none
FirstListValue(entries) ==
    IF \E i \in 1..Len(entries) : entries[i].t = "list"
    THEN CHOOSE i \in 1..Len(entries) :
            entries[i].t = "list" /\ \A j \in 1..(i - 1) : entries[j].t # "list"
    ELSE 0

\* C7: with a map root the rows come from the first value of the map that is a
\* list, even when earlier values are not lists; the map is wrapped as a single
\* row only when none of its values is a list.
C7_FirstListValue ==
    (pc = "json_done" /\ data.t = "map") =>
        LET f == FirstListValue(data.entries)
        IN IF f # 0
           THEN /\ json_ret.src = Source("value", f)
                /\ ~NormalizeRaises(data.entries[f].items)
                      => json_ret.df = CleanDf(NormalizeList(data.entries[f].items))
           ELSE /\ json_ret.src = Source("wrapped", 0)
                /\ json_ret.df = CleanDf(WrapMap(data.entries))

(***************************************************************************)
(* analyzer.py: _analyze_df, the numeric profile of one column (lines      *)
(* 86-115): quartiles, IQR, Tukey fences, outlier count and percentage.    *)
(* Quartiles are kept in quarters (x4), fences in eighths (x8), the        *)
(* percentage in hundredths (x100); on integer data these are exact.       *)
(***************************************************************************)
MaxSeries == 5

NA == [isna |-> TRUE, x |-> 0]
Val(n) == [isna |-> FALSE, x |-> n]
SeriesValues == {1, 2, 3, 4, 7, 100}
SeriesSet == SeqsUpTo({NA} \cup {Val(n) : n \in SeriesValues}, MaxSeries)

\* line 87: s = df[col].dropna(), as the sequence of its numbers
DropNa(col) ==
    LET ix == Ascending({i \in 1..Len(col) : ~col[i].isna})
    IN [k \in 1..Len(ix) |-> col[ix[k]].x]

\* round(p / q, d) with half-to-even ties, as the integer round(p / q * 10^d)
RoundDiv(p, q, scale) ==
    LET n == p * scale
        fl == n \div q
        r2 == 2 * (n % q)
    IN IF r2 < q THEN fl
       ELSE IF r2 > q THEN fl + 1
       ELSE IF fl % 2 = 0 THEN fl ELSE fl + 1

\* s.quantile(num/4), linear interpolation between the two nearest order
\* statistics: position (n-1)*num/4 in the sorted values; the result in quarters
Quantile_x4(s, num) ==
    LET sorted == SortSeq(s, LAMBDA a, b : a < b)
        pos4 == (Len(s) - 1) * num
        lo == pos4 \div 4
        rem == pos4 % 4
    IN IF rem = 0 THEN 4 * sorted[lo + 1]
       ELSE 4 * sorted[lo + 1] + rem * (sorted[lo + 2] - sorted[lo + 1])

\* line 113: (s < lo) | (s > hi), on a value and fences in eighths
IsOutlierInclusive(x, lo_x8, hi_x8) == 8 * x <= lo_x8 \/ 8 * x >= hi_x8
IsOutlier(x, lo_x8, hi_x8) == 8 * x < lo_x8 \/ 8 * x > hi_x8

\* lines 88-89: a column with nothing left after dropna gets no entry
NoProfile ==
    [skipped |-> TRUE, count |-> 0, q1_x4 |-> 0, q3_x4 |-> 0, iqr_x4 |-> 0,
     lo_x8 |-> 0, hi_x8 |-> 0, outlier_count |-> 0, outlier_pct_x100 |-> 0]

\* lines 87-115 for one column
NumericProfile(col) ==
    LET s == DropNa(col)
        q1 == Quantile_x4(s, 1)
        q3 == Quantile_x4(s, 3)
        iqr == q3 - q1
        lo == 2 * q1 - 3 * iqr
        hi == 2 * q3 + 3 * iqr
        out == Cardinality({i \in 1..Len(s) : IsOutlier(s[i], lo, hi)})
    IN IF s = <<>> THEN NoProfile
       ELSE [skipped |-> FALSE, count |-> Len(s), q1_x4 |-> q1, q3_x4 |-> q3, iqr_x4 |-> iqr,
             lo_x8 |-> lo, hi_x8 |-> hi,
             outlier_count |-> out,
             outlier_pct_x100 |-> RoundDiv(out * 100, Len(s), 100)]

NumInit ==
    /\ pc = "num_profile"
    /\ series \in SeriesSet
    /\ numeric = <<>>
    /\ GIIdle /\ CleanIdle /\ JsonIdle /\ TextIdle /\ MainIdle /\ CorrIdle

NumProfile ==
    /\ pc = "num_profile"
    /\ numeric' = NumericProfile(series)
    /\ pc' = "num_done"
    /\ UNCHANGED <<series, NotNum>>

NumNext ==
    \/ NumProfile

SpecNum == NumInit /\ [][NumNext]_vars

\* the non-null values of the column, as a bag of positions
NonNull == {i \in 1..Len(series) : ~series[i].isna}
\* the k-th smallest non-null value (k from 1): at least k values are <= it and
\* fewer than k are < it
OrderStat(k) ==
    CHOOSE v \in {series[i].x : i \in NonNull} :
        /\ Cardinality({i \in NonNull : series[i].x <= v}) >= k
        /\ Cardinality({i \in NonNull : series[i].x < v}) < k
\* the quartile num/4 by linear interpolation, in quarters
Quartile_x4(num) ==
    LET n == Cardinality(NonNull)
        h4 == (n - 1) * num
        k == h4 \div 4 + 1
        f == h4 % 4
    IN IF f = 0 THEN 4 * OrderStat(k)
       ELSE (4 - f) * OrderStat(k) + f * OrderStat(k + 1)

\* C9: for a numeric column with a non-null value, IQR = Q3 - Q1 with the
\* quartiles by linear interpolation, the fences are Q1 - 1.5 IQR and
\* Q3 + 1.5 IQR, outlier_count is exactly the number of non-null values strictly
\* outside the fences (a value on a fence is none), outlier_pct is that count as
\* a percentage of the non-null count (kept to 2 decimals); [1,2,3,4,100] gives
\* Q1 = 2, Q3 = 4, low = -1, high = 7, outlier_count = 1, outlier_pct = 20.0.
C9_TukeyFences ==
    (pc = "num_done" /\ NonNull # {}) =>
        LET n == Cardinality(NonNull)
            q1 == Quartile_x4(1)
            q3 == Quartile_x4(3)
            low == 2 * q1 - 3 * (q3 - q1)
            high == 2 * q3 + 3 * (q3 - q1)
            cnt == Cardinality({i \in NonNull : 8 * series[i].x < low \/ 8 * series[i].x > high})
        IN /\ ~numeric.skipped
           /\ numeric.count = n
           /\ numeric.q1_x4 = q1 /\ numeric.q3_x4 = q3
           /\ numeric.iqr_x4 = q3 - q1
           /\ numeric.lo_x8 = low /\ numeric.hi_x8 = high
           /\ numeric.outlier_count = cnt
           /\ 2 * Abs(numeric.outlier_pct_x100 * n - cnt * 10000) <= n
           /\ series = <<Val(1), Val(2), Val(3), Val(4), Val(100)>> =>
                /\ numeric.q1_x4 = 8 /\ numeric.q3_x4 = 16
                /\ numeric.lo_x8 = -8 /\ numeric.hi_x8 = 56
                /\ numeric.outlier_count = 1 /\ numeric.outlier_pct_x100 = 2000

\* the example column of the specification, profiled, with its one outlier
C9_Witness ==
    /\ pc = "num_done"
    /\ series = <<Val(1), Val(2), Val(3), Val(4), Val(100)>>
    /\ numeric.outlier_count = 1
    /\ numeric.outlier_pct_x100 = 2000

\* a column with a null and the value 7 exactly on the upper fence, not counted
C9_OnFence ==
    /\ pc = "num_done"
    /\ series = <<Val(1), NA, Val(2), Val(3), Val(4), Val(7)>>
    /\ numeric.hi_x8 = 56
    /\ numeric.outlier_count = 0

(***************************************************************************)
(* analyzer.py, _analyze_df lines 132-147: the correlation pairs.          *)
(* Correlations are kept in hundred-thousandths before rounding (x100000)  *)
(* and in ten-thousandths after round(r, 4) (x10000).                      *)
(***************************************************************************)
MaxCorrCols == 7

\* the numeric columns by what they hold: a variable x, a variable y that rises
\* with x, a variable w that falls with x, and a constant column
ColumnKinds == {"x", "y", "w", "const"}
CorrNaN == [isnan |-> TRUE, v |-> 0]
CorrVal(v) == [isnan |-> FALSE, v |-> v]

\* line 134: df[num_cols].corr(), Pearson's r of two columns, x100000; the
\* variance of a constant column is 0 and its r is NaN
Pearson_x100000(a, b) ==
    IF a = "const" \/ b = "const" THEN CorrNaN
    ELSE IF a = b THEN CorrVal(100000)
    ELSE IF {a, b} = {"x", "y"} THEN CorrVal(50004)
    ELSE IF {a, b} = {"x", "w"} THEN CorrVal(-49996)
    ELSE CorrVal(-30000)

\* line 141: round(float(val), 4), x10000
Round4(v) == IF v < 0 THEN -RoundDiv(-v, 10, 1) ELSE RoundDiv(v, 10, 1)

\* lines 136-141: the pairs (c1, c2) with c1 before c2 in column order, the
\* pairs without a correlation left out, in the order the loops find them
Pairs(cols) ==
    LET n == Len(cols)
        ix == Ascending({i * (n + 1) + j : i \in 1..n, j \in 1..n} \cap
                        { c \in 0..((n + 1) * (n + 1)) :
                            LET i == c \div (n + 1)
                                j == c % (n + 1)
                            IN /\ 1 <= i /\ i < j /\ j <= n
                               /\ ~Pearson_x100000(cols[i], cols[j]).isnan })
    IN [k \in 1..Len(ix) |->
          LET i == ix[k] \div (n + 1)
              j == ix[k] % (n + 1)
          IN [col1 |-> i, col2 |-> j, r |-> Round4(Pearson_x100000(cols[i], cols[j]).v)]]

\* line 142: pairs.sort(key=lambda x: abs(x["r"]), reverse=True); the sort is
\* stable, also when reversed: an entry stays ahead of a later entry whose key
\* is not greater
StaysAheadStrict(a, e) == Abs(a.r) > Abs(e.r)
StaysAhead(a, e) == Abs(a.r) >= Abs(e.r)

RECURSIVE InsertPair(_, _)
InsertPair(sorted, e) ==
    IF sorted = <<>> THEN <<e>>
    ELSE IF StaysAhead(Head(sorted), e) THEN <<Head(sorted)>> \o InsertPair(Tail(sorted), e)
    ELSE <<e>> \o sorted

RECURSIVE SortPairs(_, _)
SortPairs(pairs, k) ==
    IF k = 0 THEN <<>> ELSE InsertPair(SortPairs(pairs, k - 1), pairs[k])

\* line 146: pairs[:10]
TopPairsLimit == 10

\* lines 132-147
Correlations(cols) ==
    IF Len(cols) >= 2
    THEN [present |-> TRUE,
          top_pairs |-> Take(SortPairs(Pairs(cols), Len(Pairs(cols))), TopPairsLimit)]
    ELSE NoCorrelations

CorrInit ==
    /\ pc = "corr_pairs"
    /\ num_cols \in SeqsUpTo(ColumnKinds, MaxCorrCols)
    /\ correlations = NoCorrelations
    /\ GIIdle /\ CleanIdle /\ JsonIdle /\ NumIdle /\ TextIdle /\ MainIdle

CorrPairs ==
    /\ pc = "corr_pairs"
    /\ correlations' = Correlations(num_cols)
    /\ pc' = "corr_done"
    /\ UNCHANGED <<num_cols, NotCorr>>

CorrNext ==
    \/ CorrPairs

SpecCorr == CorrInit /\ [][CorrNext]_vars

\* the unordered pairs of distinct numeric columns with a correlation, the
\* rounded |r| of a pair, and the rank of the claim: greater |r| first, equal
\* |r| in discovery order (first column, then second column)
DefinedPairs ==
    {p \in (1..Len(num_cols)) \X (1..Len(num_cols)) :
        p[1] < p[2] /\ ~Pearson_x100000(num_cols[p[1]], num_cols[p[2]]).isnan}
RoundedR(p) == Round4(Pearson_x100000(num_cols[p[1]], num_cols[p[2]]).v)
RankedBefore(p, q) ==
    \/ Abs(RoundedR(p)) > Abs(RoundedR(q))
    \/ /\ Abs(RoundedR(p)) = Abs(RoundedR(q))
       /\ p[1] < q[1] \/ (p[1] = q[1] /\ p[2] < q[2])
Entry(k) == <<correlations.top_pairs[k].col1, correlations.top_pairs[k].col2>>

\* C11: with at least 2 numeric columns, top_pairs holds each unordered pair of
\* distinct numeric columns at most once and only pairs with a non-NaN
\* correlation (rounded to 4 decimals), in non-increasing |r| with equal |r| in
\* discovery order, and is cut to the 10 first entries of that order.
C11_TopPairs ==
    (pc = "corr_done" /\ Len(num_cols) >= 2) =>
        LET tp == correlations.top_pairs
        IN /\ correlations.present
           /\ Len(tp) = Min(TopPairsLimit, Cardinality(DefinedPairs))
           /\ \A k \in 1..Len(tp) :
                 /\ Entry(k) \in DefinedPairs
                 /\ tp[k].r = RoundedR(Entry(k))
           /\ \A k, l \in 1..Len(tp) : k < l => RankedBefore(Entry(k), Entry(l))
           /\ \A p \in DefinedPairs :
                 (\A k \in 1..Len(tp) : Entry(k) # p) =>
                     \A k \in 1..Len(tp) : RankedBefore(Entry(k), p)

\* a table with more than 10 correlated pairs and a pair without correlation:
\* the list is cut to 10, and two neighbours of the list have the same |r|
\* with opposite signs
C11_Witness ==
    /\ pc = "corr_done"
    /\ Cardinality(DefinedPairs) > TopPairsLimit
    /\ Len(correlations.top_pairs) = TopPairsLimit
    /\ \E i, j \in 1..Len(num_cols) :
          i < j /\ Pearson_x100000(num_cols[i], num_cols[j]).isnan
    /\ \E k \in 1..(TopPairsLimit - 1) :
          correlations.top_pairs[k].r = -correlations.top_pairs[k + 1].r

(***************************************************************************)
(* analyzer.py: _analyze_text (lines 188-217).  A text is a sequence of    *)
(* characters.  lexical_diversity is kept in ten-thousandths (x10000),     *)
(* the averages in hundredths (x100).  top_words is not modelled.          *)
(***************************************************************************)
MaxTextLen == 5

Alphabet == {"a", "b", "A", " ", ".", "\n"}
WordChars == {"a", "b", "A"}
SentenceEnds == {".", "!", "?"}
Newlines == {"\n"}

\* str.lower() on one character
Lower(c) == IF c = "A" THEN "a" ELSE IF c = "B" THEN "b" ELSE c

\* re.findall(r"\b\w+\b", text.lower()): the maximal runs of word characters
RECURSIVE FindWords(_, _)
FindWords(cs, cur) ==
    IF cs = <<>> THEN (IF cur = <<>> THEN <<>> ELSE <<cur>>)
    ELSE IF Head(cs) \in WordChars
         THEN FindWords(Tail(cs), Append(cur, Lower(Head(cs))))
         ELSE (IF cur = <<>> THEN <<>> ELSE <<cur>>) \o FindWords(Tail(cs), <<>>)

\* re.split / splitlines: the pieces of cs between separators
RECURSIVE SplitOn(_, _, _)
SplitOn(cs, seps, cur) ==
    IF cs = <<>> THEN <<cur>>
    ELSE IF Head(cs) \in seps
         THEN <<cur>> \o SplitOn(Tail(cs), seps, <<>>)
         ELSE SplitOn(Tail(cs), seps, Append(cur, Head(cs)))

\* [p for p in pieces if p.strip()]
NonBlank(pieces) ==
    LET ix == Ascending({i \in 1..Len(pieces) : Strip(pieces[i]) # <<>>})
    IN [k \in 1..Len(ix) |-> pieces[ix[k]]]

RECURSIVE SumLen(_)
SumLen(ws) == IF ws = <<>> THEN 0 ELSE Len(Head(ws)) + SumLen(Tail(ws))

\* line 216: round(len(set(words)) / max(len(words), 1), 4)
LexicalDiversityTruncated(unique, count) == (unique * 10000) \div Max(count, 1)
LexicalDiversity(unique, count) == RoundDiv(unique, Max(count, 1), 10000)

\* lines 188-217
AnalyzeText(t) ==
    LET words == FindWords(t, <<>>)
        sentences == NonBlank(SplitOn(t, SentenceEnds, <<>>))
        lines == NonBlank(SplitOn(t, Newlines, <<>>))
        unique == Cardinality({words[i] : i \in 1..Len(words)})
    IN [char_count |-> Len(t),
        word_count |-> Len(words),
        unique_words |-> unique,
        sentence_count |-> Len(sentences),
        line_count |-> Len(lines),
        avg_word_length_x100 |-> RoundDiv(SumLen(words), Max(Len(words), 1), 100),
        avg_sentence_length_x100 |-> RoundDiv(Len(words), Max(Len(sentences), 1), 100),
        lexical_diversity |-> LexicalDiversity(unique, Len(words))]

\* analyze calls _analyze_text on a non-empty text only (line 46)
TextInit ==
    /\ pc = "text_analyze"
    /\ text \in SeqsUpTo(Alphabet, MaxTextLen) \ {<<>>}
    /\ text_stats = <<>>
    /\ GIIdle /\ CleanIdle /\ JsonIdle /\ NumIdle /\ MainIdle /\ CorrIdle

TextAnalyze ==
    /\ pc = "text_analyze"
    /\ text_stats' = AnalyzeText(text)
    /\ pc' = "text_done"
    /\ UNCHANGED <<text, NotText>>

TextNext ==
    \/ TextAnalyze

SpecText == TextInit /\ [][TextNext]_vars

\* the word tokens of the text: a token starts where a word character follows
\* the start of the text or a non-word character, and runs to the last word
\* character before the next non-word character; tokens are lower-cased
TokenStarts ==
    {i \in 1..Len(text) : text[i] \in WordChars /\ (i = 1 \/ text[i - 1] \notin WordChars)}
TokenEnd(i) ==
    CHOOSE j \in i..Len(text) :
        /\ \A k \in i..j : text[k] \in WordChars
        /\ (j = Len(text) \/ text[j + 1] \notin WordChars)
TokenAt(i) == [k \in 1..(TokenEnd(i) - i + 1) |-> Lower(text[i + k - 1])]
TokenCount == Cardinality(TokenStarts)
DistinctTokens == Cardinality({TokenAt(i) : i \in TokenStarts})

\* C10 as stated: lexical_diversity is in [0,1], equals unique_words/word_count
\* exactly (0 when word_count is 0), and equals 1 if and only if every word
\* token is unique (unique_words = word_count).
C10_ExactRatio ==
    pc = "text_done" =>
        /\ text_stats.word_count = TokenCount
        /\ text_stats.unique_words = DistinctTokens
        /\ text_stats.lexical_diversity >= 0 /\ text_stats.lexical_diversity <= 10000
        /\ TokenCount = 0 => text_stats.lexical_diversity = 0
        /\ TokenCount > 0 => text_stats.lexical_diversity * TokenCount = DistinctTokens * 10000
        /\ text_stats.lexical_diversity = 10000 <=> DistinctTokens = TokenCount

\* C10 as amended: lexical_diversity is in [0,1] and equals
\* unique_words/word_count rounded to 4 decimals (0 when word_count is 0); with
\* at least one word it is 1 when every word token is unique; and when it is 1,
\* there is a word and unique_words/word_count >= 0.99995.
C10_RoundedRatio ==
    pc = "text_done" =>
        /\ text_stats.word_count = TokenCount
        /\ text_stats.unique_words = DistinctTokens
        /\ text_stats.lexical_diversity >= 0 /\ text_stats.lexical_diversity <= 10000
        /\ TokenCount = 0 => text_stats.lexical_diversity = 0
        /\ TokenCount > 0 =>
              2 * Abs(text_stats.lexical_diversity * TokenCount - DistinctTokens * 10000)
                  <= TokenCount
        /\ (TokenCount > 0 /\ DistinctTokens = TokenCount)
              => text_stats.lexical_diversity = 10000
        /\ text_stats.lexical_diversity = 10000
              => (TokenCount > 0 /\ 20000 * DistinctTokens >= 19999 * TokenCount)

\* "a b a": three words, two of them distinct, reported as 0.6667
C10_Witness ==
    /\ pc = "text_done"
    /\ text_stats.word_count = 3
    /\ text_stats.unique_words = 2
    /\ text_stats.lexical_diversity = 6667

(***************************************************************************)
(* file_reader.py: the files, _txt_to_df and the readers.  A file has an   *)
(* extension, bytes (what decodes them), text content as lines, a parsed   *)
(* JSON value, the tables a spreadsheet or PDF library finds in it, and    *)
(* how that library behaves on it.                                         *)
(***************************************************************************)
MaxLines == 6
MaxMainLines == 2
MaxTables == 2

\* the lines a text file is made of
LineKinds ==
    { <<"a", ",", "b">>, <<"1", ",">>, <<"a", ",", "b", ",", "c">>, <<"a">>,
      <<"a", ";", "b">> }

\* "\n".join(lines)
RECURSIVE JoinLines(_)
JoinLines(ls) ==
    IF ls = <<>> THEN <<>>
    ELSE IF Len(ls) = 1 THEN ls[1]
    ELSE ls[1] \o <<"\n">> \o JoinLines(Tail(ls))

\* bytes.decode(enc): ASCII bytes decode under every encoding; bytes above 0x7F
\* that are not UTF-8 decode under latin-1 and, unless one of them is undefined
\* in Windows-1252 (0x81, ...), under cp1252; latin-1 decodes every byte
ByteKinds == {"ascii", "high", "undefined"}
Decodes(enc, bytes) ==
    CASE enc = "utf-8" -> bytes = "ascii"
      [] enc = "latin-1" -> TRUE
      [] enc = "cp1252" -> bytes # "undefined"

\* an exception raised, with str(e); or a value returned
Raise(msg) == [raised |-> TRUE, msg |-> msg, df |-> NoDf]
Return(df) == [raised |-> FALSE, msg |-> "", df |-> df]

\* pd.DataFrame(rows, columns=header) on lists of strings: short rows are
\* padded with None, a row longer than the header raises ValueError
FrameRaises(header, rows) ==
    \E i \in 1..Len(rows) : Len(rows[i]) > Len(header)
Frame(header, rows) ==
    MakeDf([j \in 1..Len(header) |-> Str(header[j])],
           [i \in 1..Len(rows) |->
               [j \in 1..Len(header) |->
                   IF j <= Len(rows[i]) THEN Str(rows[i][j]) ELSE NaN]])

\* line 168: the delimiters, in the order they are tried
Separators == <<",", "\t", ";", "|">>
SampleSize == 5

\* line 163: lines = [l.strip() for l in text.splitlines() if l.strip()]
StrippedLines(t) ==
    LET ls == NonBlank(SplitOn(t, Newlines, <<>>))
    IN [i \in 1..Len(ls) |-> Strip(ls[i])]

\* lines 168-174, from the k-th delimiter on
RECURSIVE SniffFrom(_, _)
SniffFrom(lines, k) ==
    IF k > Len(Separators) THEN Return(EmptyDf)
    ELSE LET sep == Separators[k]
             rows == [i \in 1..Len(lines) |-> SplitOn(lines[i], {sep}, <<>>)]
             sample == Take(rows, SampleSize)
         IN IF /\ \E i \in 1..Len(lines[1]) : lines[1][i] = sep
               /\ Cardinality({Len(sample[i]) : i \in 1..Len(sample)}) = 1
            THEN IF FrameRaises(rows[1], Tail(rows))
                 THEN Raise("columns passed, passed data had more columns")
                 ELSE Return(CleanDf(Frame(rows[1], Tail(rows))))
            ELSE SniffFrom(lines, k + 1)

\* lines 161-174
TxtToDf(t) ==
    LET lines == StrippedLines(t)
    IN IF lines = <<>> THEN Return(EmptyDf) ELSE SniffFrom(lines, 1)

\* what a reader hands back: the dict it returns (type, df, text, sheets), or
\* the exception it raises; enc is the encoding of the attempt that returned
Returned(type, df, txt, sheets, enc) ==
    [raised |-> FALSE, msg |-> "", type |-> type, df |-> df, text |-> txt,
     sheets |-> sheets, enc |-> enc]
Raised(msg) ==
    [raised |-> TRUE, msg |-> msg, type |-> None, df |-> NoDf, text |-> <<>>,
     sheets |-> 0, enc |-> None]

\* line 112: text[:10000]
TextLimit == 10000

\* lines 104-115: the attempt under one encoding succeeds when the bytes decode
\* and _txt_to_df does not raise; the first attempt that succeeds returns
TxtEncodings == <<"utf-8", "latin-1">>
TxtAttemptOk(f, enc) == Decodes(enc, f.bytes) /\ ~TxtToDf(JoinLines(f.lines)).raised
ReadTxt(f) ==
    LET t == JoinLines(f.lines)
        ok == {k \in 1..Len(TxtEncodings) : TxtAttemptOk(f, TxtEncodings[k])}
    IN IF ok = {} THEN Raised("Could not read text file.")
       ELSE Returned("txt", TxtToDf(t).df, Take(t, TextLimit), 0,
                     TxtEncodings[Ascending(ok)[1]])

\* pd.read_csv(path, sep=sep, on_bad_lines="skip"): blank lines are skipped; no
\* line at all raises EmptyDataError; the first line is the header, repeated
\* names are made distinct (a, a.1, a.2); a line with more fields than the
\* header is skipped, a shorter one is padded; an empty field is NaN; a column
\* whose values all parse is numeric.  (An implicit index column is not modelled.)
DigitChar == <<"1", "2", "3", "4", "5", "6", "7", "8", "9">>
Mangle(header) ==
    [j \in 1..Len(header) |->
        LET earlier == Cardinality({i \in 1..(j - 1) : header[i] = header[j]})
        IN IF earlier = 0 THEN header[j] ELSE header[j] \o <<".", DigitChar[earlier]>>]
CsvRaises(lines) == \A i \in 1..Len(lines) : lines[i] = <<>>
ParseCsv(lines, sep) ==
    LET ix == Ascending({i \in 1..Len(lines) : lines[i] # <<>>})
        rows == [k \in 1..Len(ix) |-> SplitOn(lines[ix[k]], {sep}, <<>>)]
        header == Mangle(rows[1])
        good == Ascending({i \in 2..Len(rows) : Len(rows[i]) <= Len(header)})
    IN ToNumericColumns(
         MakeDf([j \in 1..Len(header) |-> Str(header[j])],
                [k \in 1..Len(good) |->
                    [j \in 1..Len(header) |->
                        IF j <= Len(rows[good[k]]) /\ rows[good[k]][j] # <<>>
                        THEN Str(rows[good[k]][j]) ELSE NaN]]))

\* lines 46-55 and 58-66: the attempt under one encoding succeeds when the bytes
\* decode and neither read_csv nor _clean_df raises
CsvEncodings == <<"utf-8", "latin-1", "cp1252">>
TsvEncodings == <<"utf-8", "latin-1">>
DelimitedAttemptOk(f, enc) == Decodes(enc, f.bytes) /\ ~CsvRaises(f.lines)
ReadDelimited(f, type, sep, encodings, failure) ==
    LET ok == {k \in 1..Len(encodings) : DelimitedAttemptOk(f, encodings[k])}
    IN IF ok = {} THEN Raised(failure)
       ELSE Returned(type, CleanDf(ParseCsv(f.lines, sep)), <<>>, 0,
                     encodings[Ascending(ok)[1]])
ReadCsv(f) ==
    ReadDelimited(f, "csv", ",", CsvEncodings,
                  "Could not decode CSV with any supported encoding.")
ReadTsv(f) == ReadDelimited(f, "tsv", "\t", TsvEncodings, "Could not decode TSV.")

\* an exception a library raises: str(e) is its message, and is empty for an
\* exception raised without arguments
LibraryFailure(f, missing, message) ==
    CASE f.lib = "missing" -> Raised(missing)
      [] f.lib = "raise" -> Raised(message)
      [] f.lib = "raise_nomsg" -> Raised("")

\* lines 69-78
ReadExcel(f) ==
    IF f.lib # "ok"
    THEN LibraryFailure(f, "Missing optional dependency 'openpyxl'.", "File is not a zip file")
    ELSE IF f.tables = <<>> THEN Raised("list index out of range")
    ELSE Returned("excel", CleanDf(f.tables[1]), <<>>, Len(f.tables), None)

\* json.dumps(data)[:5000], without the whitespace of indent=2
JsonTextLimit == 5000
CellChars(c) ==
    CASE c.k = "nan" -> <<"n", "u", "l", "l">>
      [] c.k = "str" -> <<"\"">> \o c.v \o <<"\"">>
      [] OTHER -> c.v
RECURSIVE ItemsChars(_)
ItemsChars(items) ==
    IF items = <<>> THEN <<>>
    ELSE (IF Head(items).isdict
          THEN <<"{", "\"", "v", "\"", ":">> \o CellChars(Head(items).c) \o <<"}">>
          ELSE CellChars(Head(items).c))
         \o (IF Len(items) > 1 THEN <<",">> ELSE <<>>) \o ItemsChars(Tail(items))
ValueChars(v) ==
    CASE v.t = "scalar" -> CellChars(v.c)
      [] v.t = "dict" -> <<"{", "\"", "v", "\"", ":">> \o CellChars(v.c) \o <<"}">>
      [] v.t = "list" -> <<"[">> \o ItemsChars(v.items) \o <<"]">>
RECURSIVE EntriesChars(_, _)
EntriesChars(entries, i) ==
    IF i > Len(entries) THEN <<>>
    ELSE <<"\"">> \o KeyOf(i) \o <<"\"", ":">> \o ValueChars(entries[i])
         \o (IF i < Len(entries) THEN <<",">> ELSE <<>>) \o EntriesChars(entries, i + 1)
Dumps(d) ==
    CASE d.t = "list" -> <<"[">> \o ItemsChars(d.items) \o <<"]">>
      [] d.t = "map" -> <<"{">> \o EntriesChars(d.entries, 1) \o <<"}">>
      [] OTHER -> <<"1">>

\* lines 81-101: open(path, encoding="utf-8") and json.load raise out of the
\* reader; a failure while normalising does not
ReadJsonFile(f) ==
    IF ~Decodes("utf-8", f.bytes) THEN Raised("'utf-8' codec can't decode byte")
    ELSE IF f.lib # "ok"
    THEN LibraryFailure(f, "", "Expecting value: line 1 column 1 (char 0)")
    ELSE Returned("json", ReadJson(f.data).df, Take(Dumps(f.data), JsonTextLimit), 0, None)

\* lines 118-141: the text of the pages and the tables pdfplumber extracts; a
\* missing pdfplumber is re-raised as ValueError, any other failure of the
\* library and a failure of _txt_to_df leave the reader as they are
ReadPdf(f) ==
    IF f.lib # "ok"
    THEN LibraryFailure(f, "pdfplumber not installed. Run: pip install pdfplumber",
                        "No /Root object! - Is this really a PDF?")
    ELSE LET full_text == JoinLines(f.lines)
             sniffed == TxtToDf(full_text)
         IN IF f.tables # <<>>
            THEN Returned("pdf", CleanDf(f.tables[1]), Take(full_text, TextLimit), 0, None)
            ELSE IF sniffed.raised THEN Raised(sniffed.msg)
            ELSE Returned("pdf", sniffed.df, Take(full_text, TextLimit), 0, None)

\* lines 8-13 and result.update(...): the record read_file returns
Result(r, error) ==
    [type |-> r.type, df |-> r.df, text |-> r.text, sheets |-> r.sheets,
     enc |-> r.enc, error |-> error]

\* line 37: result["error"] = str(e)
ErrorOf(r) == IF r.raised THEN r.msg ELSE None

\* lines 17-35: the reader the extension selects
Reader(f) ==
    CASE f.ext = ".csv" -> ReadCsv(f)
      [] f.ext = ".tsv" -> ReadTsv(f)
      [] f.ext \in {".xlsx", ".xls"} -> ReadExcel(f)
      [] f.ext = ".json" -> ReadJsonFile(f)
      [] f.ext \in {".txt", ".md", ".log"} -> ReadTxt(f)
      [] f.ext = ".pdf" -> ReadPdf(f)
      [] OTHER -> \* lines 32-35: CSV as a fallback
                  IF ReadCsv(f).raised THEN Raised("Unsupported file type")
                  ELSE ReadCsv(f)

\* lines 6-39
ReadFile(f) == Result(Reader(f), ErrorOf(Reader(f)))

(***************************************************************************)
(* main.py: main, from the path check to build_report, and                 *)
(* analyzer.py: analyze (lines 41-47, which profile is computed).          *)
(***************************************************************************)
File(path, ext, bytes, lines, d, tables, lib) ==
    [path |-> path, ext |-> ext, bytes |-> bytes, lines |-> lines, data |-> d,
     tables |-> tables, lib |-> lib]

TextExtensions == {".csv", ".tsv", ".txt", ".md", ".log", ".dat"}
LibraryOutcomes == {"ok", "missing", "raise", "raise_nomsg"}

\* the tables of a spreadsheet or a PDF, as the library delivers them
SheetTables ==
    { MakeDf(<<Str(<<"a">>)>>, << <<Str(<<"1">>)>> >>),
      MakeDf(<<Str(<<" ", "a">>), Str(<<"a">>)>>, << <<Str(<<"x">>), NaN>> >>),
      MakeDf(<<Str(<<"a">>)>>, << <<NaN>> >>) }

TextFiles(maxLines) ==
    { f \in { File("file", e, b, ls, RootScalar, <<>>, "ok") :
                e \in TextExtensions, b \in ByteKinds,
                ls \in SeqsUpTo(LineKinds, maxLines) } :
        \* a file of no bytes holds no byte above 127
        f.lines = <<>> => f.bytes = "ascii" }
JsonFiles ==
    { File("file", ".json", b, <<>>, d, <<>>, "ok") :
        b \in {"ascii", "high"},
        d \in { RootMap(e) : e \in SeqsUpTo(JsonValues, 1) }
               \cup { RootList(v.items) : v \in { w \in JsonValues : w.t = "list" } }
               \cup { RootScalar } }
    \cup { File("file", ".json", "ascii", <<>>, RootScalar, <<>>, l) :
              l \in {"raise", "raise_nomsg"} }
ExcelFiles ==
    { File("file", e, "ascii", <<>>, RootScalar, t, "ok") :
        e \in {".xlsx", ".xls"}, t \in SeqsUpTo(SheetTables, MaxTables) \ {<<>>} }
    \cup { File("file", e, "ascii", <<>>, RootScalar, <<>>, l) :
              e \in {".xlsx", ".xls"}, l \in LibraryOutcomes \ {"ok"} }
PdfFiles(maxLines) ==
    { File("file", ".pdf", "ascii", ls, RootScalar, t, "ok") :
        ls \in SeqsUpTo(LineKinds, maxLines), t \in SeqsUpTo(SheetTables, MaxTables) }
    \cup { File("file", ".pdf", "ascii", <<>>, RootScalar, <<>>, l) :
              l \in LibraryOutcomes \ {"ok"} }
NoFiles ==
    { File(p, ".csv", "ascii", <<>>, RootScalar, <<>>, "ok") : p \in {"none", "missing"} }

Files(maxLines) ==
    TextFiles(maxLines) \cup JsonFiles \cup ExcelFiles \cup PdfFiles(maxLines) \cup NoFiles

NoFileInfo ==
    [type |-> None, df |-> NoDf, text |-> <<>>, sheets |-> 0, enc |-> None, error |-> None]
NoAnalysis == [branch |-> None, text_stats |-> <<>>]

\* df.empty: no rows or no columns
IsEmpty(df) == df.rows = <<>> \/ df.columns = <<>>

\* analyzer.py lines 41-47: the table profile when a non-empty table was read,
\* else the text profile when there is text, else neither
Analyze(fi) ==
    IF fi.df # NoDf /\ ~IsEmpty(fi.df) THEN [branch |-> "table", text_stats |-> <<>>]
    ELSE IF fi.text # <<>> THEN [branch |-> "text", text_stats |-> AnalyzeText(fi.text)]
    ELSE [branch |-> "none", text_stats |-> <<>>]

\* line 90: if file_info.get("error")
ErrorNever(fi) == FALSE
ErrorIsSet(fi) == fi.error # None /\ fi.error # ""

\* lines 61-70
MainPath ==
    /\ pc = "main_path"
    /\ pc' = CASE file.path = "none" -> "exit_no_path"
               [] file.path = "missing" -> "exit_not_found"
               [] OTHER -> "main_read"
    /\ UNCHANGED <<mainVars, NotMain>>

\* line 88
MainRead ==
    /\ pc = "main_read"
    /\ file_info' = ReadFile(file)
    /\ pc' = "main_check"
    /\ UNCHANGED <<file, analysis, built, NotMain>>

\* lines 90-96: sys.exit(1) on an error; then file_info['type'].upper(), which
\* raises AttributeError when no reader set the type
MainCheck ==
    /\ pc = "main_check"
    /\ pc' = IF ErrorIsSet(file_info) THEN "exit_read_error"
             ELSE IF file_info.type = None THEN "crashed"
             ELSE "main_analyze"
    /\ UNCHANGED <<mainVars, NotMain>>

\* line 115
MainAnalyze ==
    /\ pc = "main_analyze"
    /\ analysis' = Analyze(file_info)
    /\ pc' = "main_build"
    /\ UNCHANGED <<file, file_info, built, NotMain>>

\* lines 137-147: build_report returns, or raises and main exits with 1
MainBuild ==
    /\ pc = "main_build"
    /\ built' = TRUE
    /\ \E ok \in BOOLEAN : pc' = IF ok THEN "main_done" ELSE "exit_build_error"
    /\ UNCHANGED <<file, file_info, analysis, NotMain>>

MainInit ==
    /\ pc = "main_path"
    /\ file \in Files(MaxMainLines)
    /\ file_info = NoFileInfo
    /\ analysis = NoAnalysis
    /\ built = FALSE
    /\ GIIdle /\ CleanIdle /\ JsonIdle /\ NumIdle /\ TextIdle /\ CorrIdle

MainNext ==
    \/ MainPath
    \/ MainRead
    \/ MainCheck
    \/ MainAnalyze
    \/ MainBuild

SpecMain == MainInit /\ [][MainNext]_vars

\* read_file alone, on the free-text files of up to MaxLines lines
TxtInit ==
    /\ pc = "main_read"
    /\ file \in { f \in TextFiles(MaxLines) : f.ext = ".txt" }
    /\ file_info = NoFileInfo
    /\ analysis = NoAnalysis
    /\ built = FALSE
    /\ GIIdle /\ CleanIdle /\ JsonIdle /\ NumIdle /\ TextIdle /\ CorrIdle

TxtNext ==
    \/ MainRead

SpecTxt == TxtInit /\ [][TxtNext]_vars

\* the run has called read_file
HasRead == pc \notin {"main_path", "main_read", "exit_no_path", "exit_not_found"}

\* C2: read_file never raises: on every extension branch and for every failure
\* raised inside a reader it returns a record, and when the reader failed the
\* record's error is a non-empty message and df stays unset.
C2_FailurePopulatesError ==
    (HasRead /\ Reader(file).raised) =>
        /\ file_info.error # None
        /\ file_info.error # ""
        /\ file_info.df = NoDf

\* the encodings a reader tries, in order, and its "could not decode" message
EncodingsOf(ext) ==
    CASE ext = ".csv" -> CsvEncodings
      [] ext = ".tsv" -> TsvEncodings
      [] OTHER -> TxtEncodings
DecodeFailures ==
    {"Could not decode CSV with any supported encoding.", "Could not decode TSV.",
     "Could not read text file."}

\* C3: in the delimited-text and free-text readers, when at least one encoding
\* of the list decodes the bytes the read succeeds, with no error, under the
\* first such encoding; the "could not decode" failure occurs only when every
\* encoding fails to decode the bytes.
C3_FirstDecodingEncodingWins ==
    (HasRead
        /\ file.ext \in {".csv", ".tsv", ".txt", ".md", ".log"}) =>
        LET encs == EncodingsOf(file.ext)
            decoding == {k \in 1..Len(encs) : Decodes(encs[k], file.bytes)}
        IN /\ decoding # {} =>
                /\ file_info.error = None
                /\ file_info.enc = encs[Ascending(decoding)[1]]
           /\ file_info.error \in DecodeFailures => decoding = {}

\* C4: a read error is terminal: when read_file returned a record with an error
\* the run ends at the error check (exit 1, or for an empty message the crash on
\* the unset type), analyze and build_report are never called and no analysis
\* record exists; analyze is reached only after a read without error.
C4_ReadErrorTerminal ==
    /\ (HasRead /\ file_info.error # None) =>
            /\ pc \in {"main_check", "exit_read_error", "crashed"}
            /\ file_info.error # "" => pc # "crashed"
            /\ analysis = NoAnalysis
            /\ ~built
    /\ (analysis # NoAnalysis \/ built \/ pc \in {"main_analyze", "main_build", "main_done"})
            => file_info.error = None

\* a run that read a file with an error and ended at the error check
C4_Witness ==
    /\ pc = "exit_read_error"
    /\ file_info.error = "Could not decode CSV with any supported encoding."
    /\ analysis = NoAnalysis

\* a run that went on to analyze after a read without error
C4_Analyzed ==
    pc = "main_done" /\ analysis.branch = "table" /\ file_info.error = None

\* the non-empty lines of the file, the fields of a line, and the delimiter the
\* claim accepts: the first one that occurs on the first line and splits the
\* first (up to 5) lines into the same number of fields
FileLines == StrippedLines(JoinLines(file.lines))
Fields(line, sep) == SplitOn(line, {sep}, <<>>)
Accepted(sep) ==
    /\ \E i \in 1..Len(FileLines[1]) : FileLines[1][i] = sep
    /\ \A i \in 1..Min(Len(FileLines), SampleSize) :
          Len(Fields(FileLines[i], sep)) = Len(Fields(FileLines[1], sep))
LaterLinesDiffer(sep) ==
    \E i \in (SampleSize + 1)..Len(FileLines) :
        Len(Fields(FileLines[i], sep)) # Len(Fields(FileLines[1], sep))

\* C8: a free-text file whose bytes decode is read without error; a delimiter is
\* accepted only if the first (up to 5) non-empty lines split into the same
\* number of fields, and then the first line is the header and the other lines
\* the table; in every other case, also when later lines have another number of
\* fields, the table is empty and the raw text is kept.
C8_SniffOrRawText ==
    (pc = "main_check" /\ file.ext \in {".txt", ".md", ".log"}) =>
        LET seps == {k \in 1..Len(Separators) : FileLines # <<>> /\ Accepted(Separators[k])}
            sep == Separators[Ascending(seps)[1]]
        IN /\ file_info.error = None
           /\ file_info.text = Take(JoinLines(file.lines), TextLimit)
           /\ IF seps # {} /\ ~LaterLinesDiffer(sep)
              THEN file_info.df =
                     CleanDf(Frame(Fields(FileLines[1], sep),
                                   [i \in 1..(Len(FileLines) - 1) |->
                                       Fields(FileLines[i + 1], sep)]))
              ELSE file_info.df = EmptyDf

(***************************************************************************)
(* analyzer.py, analyze (lines 21-50): the table profile or the text       *)
(* profile, then the insights of the record.                               *)
(***************************************************************************)
\* lines 224-285 in one piece
GenerateInsights(r) ==
    Cap(RowInsights(r) \o MissingInsights(r) \o DuplicateInsights(r)
        \o OutlierInsights(r) \o SkewInsights(r) \o CorrelationInsights(r)
        \o CategoryInsights(r) \o TextInsights(r))

\* lines 26-39: every section empty
EmptyRecord ==
    [rows |-> 0, missing_pct |-> 0, duplicate_rows |-> 0,
     numeric |-> <<>>, top_pairs |-> <<>>, categorical |-> <<>>, text_stats |-> NoText]

\* line 45: what _analyze_df returns for a non-empty table, with the row count
\* of the table; the other sections range over the table records
TableProfiles(df) == { [r EXCEPT !.rows = Len(df.rows)] : r \in TableRecords }

\* the fields of text_stats the insight rules read; lexical_diversity in
\* hundredths, rounded down (the rule compares it with 0.3 only)
TextSection(ts) ==
    [lexical_diversity |-> ts.lexical_diversity \div 100,
     word_count |-> ts.word_count,
     sentence_count |-> ts.sentence_count]

\* line 46: elif text
TextBranchAlways(fi, tableTaken) == fi.text # <<>>
TextBranch(fi, tableTaken) == ~tableTaken /\ fi.text # <<>>

\* lines 41-47: the record before the insights
AnalyzeSections(fi, profile) ==
    LET tableTaken == fi.df # NoDf /\ ~IsEmpty(fi.df)
        sections == IF tableTaken THEN profile ELSE EmptyRecord
    IN IF TextBranch(fi, tableTaken)
       THEN [sections EXCEPT !.text_stats = TextSection(AnalyzeText(fi.text))]
       ELSE sections

\* file_info records as read_file returns them: no table or a table of one
\* row, and no text, a text of one word, a repetitive text or a text of no word
AnalyzeTables == { NoDf, MakeDf(<<Str(<<"a">>)>>, << <<Str(<<"1">>)>> >>) }
AnalyzeTexts ==
    { <<>>, <<"a">>, <<".">>, <<"a", " ", "a", " ", "a", " ", "A">> }
AnalyzeInputs ==
    { [NoFileInfo EXCEPT !.type = "txt", !.df = d, !.text = t] :
        d \in AnalyzeTables, t \in AnalyzeTexts }

AnalyzeInit ==
    /\ pc = "analyze"
    /\ file_info \in AnalyzeInputs
    /\ result = NoText
    /\ ret = <<>>
    /\ insights = <<>>
    /\ file = <<>> /\ analysis = <<>> /\ built = FALSE
    /\ CleanIdle /\ JsonIdle /\ NumIdle /\ TextIdle /\ CorrIdle

\* lines 41-50
AnalyzeCall ==
    /\ pc = "analyze"
    /\ \E profile \in TableProfiles(file_info.df) :
          /\ result' = AnalyzeSections(file_info, profile)
          /\ ret' = GenerateInsights(AnalyzeSections(file_info, profile))
    /\ pc' = "analyze_done"
    /\ UNCHANGED <<insights, cleanVars, jsonVars, numVars, corrVars, textVars, mainVars>>

AnalyzeNext ==
    \/ AnalyzeCall

SpecAnalyze == AnalyzeInit /\ [][AnalyzeNext]_vars

\* the document-size insights of the returned list
DocumentSizeAt == {k \in 1..Len(ret) : ret[k].title = "Document Size"}

\* C12: text statistics are computed only when no non-empty table was
\* produced; a record with text statistics has every table section empty, and
\* its insight list, after the cap of 12, holds exactly one document-size
\* insight.
C12_TextOnlyWithoutTable ==
    (pc = "analyze_done" /\ result.text_stats # NoText) =>
        /\ file_info.df = NoDf \/ IsEmpty(file_info.df)
        /\ file_info.text # <<>>
        /\ result.rows = 0 /\ result.missing_pct = 0 /\ result.duplicate_rows = 0
        /\ result.numeric = <<>> /\ result.top_pairs = <<>> /\ result.categorical = <<>>
        /\ Cardinality(DocumentSizeAt) = 1

\* a repetitive text without a table: the low-diversity caution and then the
\* one document-size insight
C12_Witness ==
    /\ pc = "analyze_done"
    /\ result.text_stats # NoText
    /\ result.text_stats.word_count = 4
    /\ Len(ret) = 2
    /\ ret[1].title = "Low Lexical Diversity"
    /\ ret[2].title = "Document Size"

\* a table whose own insights fill the cap, read from a file that also has text
C12_FullTableWithText ==
    /\ pc = "analyze_done"
    /\ file_info.text # <<>>
    /\ Len(ret) = InsightCap
    /\ result.text_stats = NoText

====
